---- MODULE Spec2Model ----
(***************************************************************************)
(* Model of the calculator engine (tokenize, ExpressionParser,             *)
(* evaluateNode, evaluate, isValidExpression, formatNumber) and of the     *)
(* state machine of CalculatorPage that drives it.                         *)
(*                                                                         *)
(* A string is a sequence of one-character strings.  A number is an exact  *)
(* rational <<n, d>> with d > 0 in lowest terms; the engine only ever      *)
(* combines numbers with + - * / and unary minus, and every property below *)
(* compares results obtained by the same grouping of the same operations,  *)
(* so rounding of IEEE doubles does not enter.  -0 and 0 are one value, as *)
(* they are for the `right === 0` test.                                    *)
(* An error message is a sequence of fragments whose concatenation is the  *)
(* message text.                                                           *)
(***************************************************************************)
EXTENDS Integers, Sequences, FiniteSets, TLC

VARIABLES
  expression,        \* the string handed to the engine; the page's `expression`
  evaluated,         \* how the last call of evaluate ended
  validated,         \* how the last call of isValidExpression ended
  number,            \* the number handed to formatNumber
  maxDecimals,       \* its maxDecimals argument
  formatted,         \* how the last call of formatNumber ended
                     \* (on the page: the calls made by the last click)
  result,            \* CalculatorPage state `result`
  error,             \* CalculatorPage state `error`
  isNewExpression,   \* CalculatorPage state `isNewExpression`
  clicked,           \* the value of the last keypad click
  clicks             \* how many clicks the page has handled

engineVars == <<expression, evaluated, validated>>

formatVars == <<number, maxDecimals, formatted>>

pageVars == <<result, error, isNewExpression, clicked, clicks>>

vars == <<engineVars, formatVars, pageVars>>

(***************************************************************************)
(* Bounds                                                                  *)
(***************************************************************************)
MaxLen == 4

MaxExprLen == 7

MaxNumerator == 12

MaxDecimals == 3

MaxClicks == 6

(***************************************************************************)
(* Characters                                                              *)
(***************************************************************************)
DigitChars == {"0", "1", "2", "3", "4", "5", "6", "7", "8", "9"}

DigitValue(c) ==
  CASE c = "0" -> 0 [] c = "1" -> 1 [] c = "2" -> 2 [] c = "3" -> 3
    [] c = "4" -> 4 [] c = "5" -> 5 [] c = "6" -> 6 [] c = "7" -> 7
    [] c = "8" -> 8 [] c = "9" -> 9

OperatorChars == {"+", "-", "*", "/"}

\* /\s/ : the whitespace characters; the space and the tab stand for the class
IsSpace(c) == c \in {" ", "\t"}

\* /\d/
IsDigit(c) == c \in DigitChars

\* /[\d.]/
IsDigitOrDot(c) == c \in DigitChars \cup {"."}

\* /[+\-*/]/
IsOperatorChar(c) == c \in OperatorChars

(***************************************************************************)
(* Numbers                                                                 *)
(***************************************************************************)
Abs(n) == IF n < 0 THEN -n ELSE n

RECURSIVE GCD(_, _)
GCD(a, b) == IF b = 0 THEN a ELSE GCD(b, a % b)

\* the number n / d, d # 0
Rat(n, d) ==
  LET g == GCD(Abs(n), Abs(d))
      s == IF d < 0 THEN -1 ELSE 1
  IN  <<(s * n) \div g, (s * d) \div g>>

Zero == <<0, 1>>

NumAdd(a, b) == Rat(a[1] * b[2] + b[1] * a[2], a[2] * b[2])

NumSub(a, b) == Rat(a[1] * b[2] - b[1] * a[2], a[2] * b[2])

NumMul(a, b) == Rat(a[1] * b[1], a[2] * b[2])

\* b # 0
NumDiv(a, b) == Rat(a[1] * b[2], a[2] * b[1])

NumNeg(a) == <<-a[1], a[2]>>

RECURSIVE Pow10(_)
Pow10(k) == IF k = 0 THEN 1 ELSE 10 * Pow10(k - 1)

(***************************************************************************)
(* parseFloat on a run of digits and dots: the longest prefix of the form  *)
(* digits [ . digits ] is converted, the rest of the run is ignored; NaN   *)
(* when that prefix holds no digit.                                        *)
(***************************************************************************)
RECURSIVE DigitRunEnd(_, _)
\* index of the first position >= i of s that holds no digit
DigitRunEnd(s, i) ==
  IF i <= Len(s) /\ IsDigit(s[i]) THEN DigitRunEnd(s, i + 1) ELSE i

RECURSIVE DigitsValue(_, _, _)
\* the natural number written by s[i .. j-1]
DigitsValue(s, i, j) ==
  IF i >= j THEN 0 ELSE DigitsValue(s, i, j - 1) * 10 + DigitValue(s[j - 1])

\* NaN is kept apart from every rational by its zero denominator
NaN == <<0, 0>>

isNaN(num) == num = NaN

parseFloat(numStr) ==
  LET intEnd  == DigitRunEnd(numStr, 1)
      hasDot  == intEnd <= Len(numStr) /\ numStr[intEnd] = "."
      fracEnd == IF hasDot THEN DigitRunEnd(numStr, intEnd + 1) ELSE intEnd
      fracLen == IF hasDot THEN fracEnd - (intEnd + 1) ELSE 0
  IN  IF intEnd = 1 /\ fracLen = 0
        THEN NaN
        ELSE Rat(DigitsValue(numStr, 1, intEnd) * Pow10(fracLen)
                   + (IF hasDot THEN DigitsValue(numStr, intEnd + 1, fracEnd) ELSE 0),
                 Pow10(fracLen))

(***************************************************************************)
(* tokenize                                                                *)
(***************************************************************************)
RECURSIVE NumberRunEnd(_, _)
\* the inner while loop of the number branch: first index >= i outside [\d.]
NumberRunEnd(s, i) ==
  IF i <= Len(s) /\ IsDigitOrDot(s[i]) THEN NumberRunEnd(s, i + 1) ELSE i

Failure(message) == [ok |-> FALSE, message |-> message]

RECURSIVE tokenizeFrom(_, _, _)
\* tokenize without the branch that skips whitespace
tokenizeFrom_NoSkip(s, i, tokens) ==
  IF i > Len(s) THEN [ok |-> TRUE, tokens |-> tokens]
  ELSE IF IsDigit(s[i]) THEN
    LET j   == NumberRunEnd(s, i)
        num == parseFloat(SubSeq(s, i, j - 1))
    IN  IF ~isNaN(num)
          THEN tokenizeFrom(s, j, Append(tokens, [type |-> "number", value |-> num]))
          ELSE tokenizeFrom(s, j, tokens)
  ELSE IF IsOperatorChar(s[i]) THEN
    tokenizeFrom(s, i + 1, Append(tokens, [type |-> "operator", value |-> s[i]]))
  ELSE IF s[i] = "(" THEN
    tokenizeFrom(s, i + 1, Append(tokens, [type |-> "lparen", value |-> "("]))
  ELSE IF s[i] = ")" THEN
    tokenizeFrom(s, i + 1, Append(tokens, [type |-> "rparen", value |-> ")"]))
  ELSE Failure(<<"Invalid character in expression: ", s[i]>>)

\* the outer while loop of tokenize, at index i (1-based) with tokens so far
tokenizeFrom(s, i, tokens) ==
  IF i > Len(s) THEN [ok |-> TRUE, tokens |-> tokens]
  ELSE IF IsSpace(s[i]) THEN tokenizeFrom(s, i + 1, tokens)
  ELSE IF IsDigit(s[i]) THEN
    LET j   == NumberRunEnd(s, i)
        num == parseFloat(SubSeq(s, i, j - 1))
    IN  IF ~isNaN(num)
          THEN tokenizeFrom(s, j, Append(tokens, [type |-> "number", value |-> num]))
          ELSE tokenizeFrom(s, j, tokens)
  ELSE IF IsOperatorChar(s[i]) THEN
    tokenizeFrom(s, i + 1, Append(tokens, [type |-> "operator", value |-> s[i]]))
  ELSE IF s[i] = "(" THEN
    tokenizeFrom(s, i + 1, Append(tokens, [type |-> "lparen", value |-> "("]))
  ELSE IF s[i] = ")" THEN
    tokenizeFrom(s, i + 1, Append(tokens, [type |-> "rparen", value |-> ")"]))
  ELSE Failure(<<"Invalid character in expression: ", s[i]>>)

tokenize(s) == tokenizeFrom(s, 1, <<>>)

(***************************************************************************)
(* ExpressionParser: every method takes the cursor `current` (0-based, as  *)
(* in the source) and yields either the node with the new cursor or the    *)
(* thrown error.                                                           *)
(***************************************************************************)
Parsed(node, current) == [ok |-> TRUE, node |-> node, current |-> current]

NumberNode(value) == [type |-> "number", value |-> value]

UnaryNode(operand) == [type |-> "unary", operator |-> "-", right |-> operand]

BinaryNode(operator, left, right) ==
  [type |-> "binary", operator |-> operator, left |-> left, right |-> right]

\* this.tokens[this.current]
TokenAt(tokens, current) == tokens[current + 1]

RECURSIVE parseAddSub(_, _)
RECURSIVE parseAddSubLoop(_, _, _)
RECURSIVE parseMulDiv(_, _)
RECURSIVE parseMulDivLoop(_, _, _)
RECURSIVE parsePrimary(_, _)

\* parseAddSubLoop taking the whole rest of the chain as its right operand
parseAddSubLoop_RightAssoc(tokens, left, current) ==
  IF current < Len(tokens)
    THEN LET token == TokenAt(tokens, current)
         IN  IF token.type = "operator" /\ (token.value = "+" \/ token.value = "-")
               THEN LET right == parseAddSub(tokens, current + 1)
                    IN  IF ~right.ok THEN right
                        ELSE Parsed(BinaryNode(token.value, left, right.node),
                                    right.current)
               ELSE Parsed(left, current)
    ELSE Parsed(left, current)

\* the while loop of parseAddSub with the tree built so far in `left`
parseAddSubLoop(tokens, left, current) ==
  IF current < Len(tokens)
    THEN LET token == TokenAt(tokens, current)
         IN  IF token.type = "operator" /\ (token.value = "+" \/ token.value = "-")
               THEN LET right == parseMulDiv(tokens, current + 1)
                    IN  IF ~right.ok THEN right
                        ELSE parseAddSubLoop(tokens,
                               BinaryNode(token.value, left, right.node),
                               right.current)
               ELSE Parsed(left, current)
    ELSE Parsed(left, current)

parseAddSub(tokens, current) ==
  LET left == parseMulDiv(tokens, current)
  IN  IF ~left.ok THEN left
      ELSE parseAddSubLoop(tokens, left.node, left.current)

\* parseMulDivLoop folding + and - in the same tier as * and /
parseMulDivLoop_AllOperators(tokens, left, current) ==
  IF current < Len(tokens)
    THEN LET token == TokenAt(tokens, current)
         IN  IF token.type = "operator"
               THEN LET right == parsePrimary(tokens, current + 1)
                    IN  IF ~right.ok THEN right
                        ELSE parseMulDivLoop(tokens,
                               BinaryNode(token.value, left, right.node),
                               right.current)
               ELSE Parsed(left, current)
    ELSE Parsed(left, current)

\* the while loop of parseMulDiv with the tree built so far in `left`
parseMulDivLoop(tokens, left, current) ==
  IF current < Len(tokens)
    THEN LET token == TokenAt(tokens, current)
         IN  IF token.type = "operator" /\ (token.value = "*" \/ token.value = "/")
               THEN LET right == parsePrimary(tokens, current + 1)
                    IN  IF ~right.ok THEN right
                        ELSE parseMulDivLoop(tokens,
                               BinaryNode(token.value, left, right.node),
                               right.current)
               ELSE Parsed(left, current)
    ELSE Parsed(left, current)

parseMulDiv(tokens, current) ==
  LET left == parsePrimary(tokens, current)
  IN  IF ~left.ok THEN left
      ELSE parseMulDivLoop(tokens, left.node, left.current)

\* parsePrimary reading the inside of a group one tier too high
parsePrimary_GroupMulDiv(tokens, current) ==
  IF current >= Len(tokens) THEN Failure(<<"Unexpected end of expression">>)
  ELSE
    LET token == TokenAt(tokens, current)
    IN  IF token.type = "lparen" THEN
          LET expr == parseMulDiv(tokens, current + 1)
          IN  IF ~expr.ok THEN expr
              ELSE IF expr.current >= Len(tokens)
                      \/ TokenAt(tokens, expr.current).type # "rparen"
                THEN Failure(<<"Missing closing parenthesis">>)
                ELSE Parsed(expr.node, expr.current + 1)
        ELSE IF token.type = "operator" /\ token.value = "-" THEN
          LET operand == parsePrimary(tokens, current + 1)
          IN  IF ~operand.ok THEN operand
              ELSE Parsed(UnaryNode(operand.node), operand.current)
        ELSE IF token.type = "operator" /\ token.value = "+" THEN
          parsePrimary(tokens, current + 1)
        ELSE IF token.type = "number" THEN
          Parsed(NumberNode(token.value), current + 1)
        ELSE Failure(<<"Unexpected token: ", token.value>>)

\* parsePrimary dropping the unary minus as it drops the unary plus
parsePrimary_MinusErased(tokens, current) ==
  IF current >= Len(tokens) THEN Failure(<<"Unexpected end of expression">>)
  ELSE
    LET token == TokenAt(tokens, current)
    IN  IF token.type = "lparen" THEN
          LET expr == parseAddSub(tokens, current + 1)
          IN  IF ~expr.ok THEN expr
              ELSE IF expr.current >= Len(tokens)
                      \/ TokenAt(tokens, expr.current).type # "rparen"
                THEN Failure(<<"Missing closing parenthesis">>)
                ELSE Parsed(expr.node, expr.current + 1)
        ELSE IF token.type = "operator" /\ token.value = "-" THEN
          LET operand == parsePrimary(tokens, current + 1)
          IN  IF ~operand.ok THEN operand
              ELSE Parsed(operand.node, operand.current)
        ELSE IF token.type = "operator" /\ token.value = "+" THEN
          parsePrimary(tokens, current + 1)
        ELSE IF token.type = "number" THEN
          Parsed(NumberNode(token.value), current + 1)
        ELSE Failure(<<"Unexpected token: ", token.value>>)

\* parsePrimary leaving the cursor on the number it has read
parsePrimary_NumberNotConsumed(tokens, current) ==
  IF current >= Len(tokens) THEN Failure(<<"Unexpected end of expression">>)
  ELSE
    LET token == TokenAt(tokens, current)
    IN  IF token.type = "lparen" THEN
          LET expr == parseAddSub(tokens, current + 1)
          IN  IF ~expr.ok THEN expr
              ELSE IF expr.current >= Len(tokens)
                      \/ TokenAt(tokens, expr.current).type # "rparen"
                THEN Failure(<<"Missing closing parenthesis">>)
                ELSE Parsed(expr.node, expr.current + 1)
        ELSE IF token.type = "operator" /\ token.value = "-" THEN
          LET operand == parsePrimary(tokens, current + 1)
          IN  IF ~operand.ok THEN operand
              ELSE Parsed(UnaryNode(operand.node), operand.current)
        ELSE IF token.type = "operator" /\ token.value = "+" THEN
          parsePrimary(tokens, current + 1)
        ELSE IF token.type = "number" THEN
          Parsed(NumberNode(token.value), current)
        ELSE Failure(<<"Unexpected token: ", token.value>>)

parsePrimary(tokens, current) ==
  IF current >= Len(tokens) THEN Failure(<<"Unexpected end of expression">>)
  ELSE
    LET token == TokenAt(tokens, current)
    IN  IF token.type = "lparen" THEN
          LET expr == parseAddSub(tokens, current + 1)
          IN  IF ~expr.ok THEN expr
              ELSE IF expr.current >= Len(tokens)
                      \/ TokenAt(tokens, expr.current).type # "rparen"
                THEN Failure(<<"Missing closing parenthesis">>)
                ELSE Parsed(expr.node, expr.current + 1)
        ELSE IF token.type = "operator" /\ token.value = "-" THEN
          LET operand == parsePrimary(tokens, current + 1)
          IN  IF ~operand.ok THEN operand
              ELSE Parsed(UnaryNode(operand.node), operand.current)
        ELSE IF token.type = "operator" /\ token.value = "+" THEN
          parsePrimary(tokens, current + 1)
        ELSE IF token.type = "number" THEN
          Parsed(NumberNode(token.value), current + 1)
        ELSE Failure(<<"Unexpected token: ", token.value>>)

\* new ExpressionParser(tokens).parse()
parse(tokens) == parseAddSub(tokens, 0)

(***************************************************************************)
(* evaluateNode                                                            *)
(***************************************************************************)
Value(value) == [ok |-> TRUE, value |-> value]

RECURSIVE evaluateNode(_)
\* evaluateNode that takes x * 0 to be 0 whatever happened in x
evaluateNode_ShortCircuit(node) ==
  IF node.type = "binary" /\ node.operator = "*"
    THEN LET right == evaluateNode(node.right)
         IN  IF right.ok /\ right.value = Zero
               THEN Value(Zero)
               ELSE LET left == evaluateNode(node.left)
                    IN  IF ~left.ok THEN left
                        ELSE IF ~right.ok THEN right
                        ELSE Value(NumMul(left.value, right.value))
  ELSE IF node.type = "number" THEN Value(node.value)
  ELSE IF node.type = "unary" THEN
    LET operand == evaluateNode(node.right)
    IN  IF ~operand.ok THEN operand
        ELSE IF node.operator = "-" THEN Value(NumNeg(operand.value))
        ELSE operand
  ELSE
    LET left  == evaluateNode(node.left)
        right == evaluateNode(node.right)
    IN  IF ~left.ok THEN left
        ELSE IF ~right.ok THEN right
        ELSE CASE node.operator = "+" -> Value(NumAdd(left.value, right.value))
               [] node.operator = "-" -> Value(NumSub(left.value, right.value))
               [] node.operator = "/" ->
                    IF right.value = Zero
                      THEN Failure(<<"Division by zero">>)
                      ELSE Value(NumDiv(left.value, right.value))

evaluateNode(node) ==
  IF node.type = "number" THEN Value(node.value)
  ELSE IF node.type = "unary" THEN
    LET operand == evaluateNode(node.right)
    IN  IF ~operand.ok THEN operand
        ELSE IF node.operator = "-" THEN Value(NumNeg(operand.value))
        ELSE operand
  ELSE IF node.type = "binary" THEN
    LET left  == evaluateNode(node.left)
        right == evaluateNode(node.right)
    IN  IF ~left.ok THEN left
        ELSE IF ~right.ok THEN right
        ELSE CASE node.operator = "+" -> Value(NumAdd(left.value, right.value))
               [] node.operator = "-" -> Value(NumSub(left.value, right.value))
               [] node.operator = "*" -> Value(NumMul(left.value, right.value))
               [] node.operator = "/" ->
                    IF right.value = Zero
                      THEN Failure(<<"Division by zero">>)
                      ELSE Value(NumDiv(left.value, right.value))
               [] OTHER -> Failure(<<"Unknown operator: ", node.operator>>)
  ELSE Failure(<<"Unknown node type">>)

(***************************************************************************)
(* evaluate and isValidExpression.  An outcome records how the call ended  *)
(* (a returned value or a thrown message) and the pipeline stages the call *)
(* entered before it ended.                                                *)
(***************************************************************************)
Return(value, stages) == [kind |-> "return", value |-> value, stages |-> stages]

Throw(message, stages) == [kind |-> "throw", message |-> message, stages |-> stages]

RECURSIVE trimStart(_)
trimStart(s) == IF s # <<>> /\ IsSpace(Head(s)) THEN trimStart(Tail(s)) ELSE s

RECURSIVE trimEnd(_)
trimEnd(s) ==
  IF s # <<>> /\ IsSpace(s[Len(s)]) THEN trimEnd(SubSeq(s, 1, Len(s) - 1)) ELSE s

\* String.prototype.trim
trim(s) == trimEnd(trimStart(s))

\* the blank test without the trim: only the empty string is blank
IsBlank_EmptyOnly(s) == s = <<>>

\* !expression || !expression.trim()
IsBlank(s) == s = <<>> \/ trim(s) = <<>>

\* the try block of evaluate
evaluateTry(s) ==
  LET lexed == tokenize(s)
  IN  IF ~lexed.ok THEN Throw(lexed.message, <<"tokenize">>)
      ELSE IF Len(lexed.tokens) = 0 THEN Return(Zero, <<"tokenize">>)
      ELSE LET ast == parse(lexed.tokens)
           IN  IF ~ast.ok THEN Throw(ast.message, <<"tokenize", "parse">>)
               ELSE LET outcome == evaluateNode(ast.node)
                    IN  IF ~outcome.ok
                          THEN Throw(outcome.message,
                                     <<"tokenize", "parse", "evaluateNode">>)
                          ELSE Return(outcome.value,
                                      <<"tokenize", "parse", "evaluateNode">>)

\* evaluate rethrowing the stage's error as it is
evaluate_NoWrap(s) ==
  IF IsBlank(s) THEN Return(Zero, <<>>) ELSE evaluateTry(s)

evaluate(s) ==
  IF IsBlank(s) THEN Return(Zero, <<>>)
  ELSE LET attempt == evaluateTry(s)
       IN  IF attempt.kind = "throw"
             THEN Throw(<<"Calculation error: ">> \o attempt.message, attempt.stages)
             ELSE attempt

RECURSIVE parenScan(_, _, _)
\* the for loop over the tokens with the running parenCount; yields the
\* final count, or -1 as soon as the count has gone negative
parenScan(tokens, i, parenCount) ==
  IF i > Len(tokens) THEN parenCount
  ELSE IF tokens[i].type = "lparen" THEN parenScan(tokens, i + 1, parenCount + 1)
  ELSE IF tokens[i].type = "rparen"
    THEN IF parenCount - 1 < 0 THEN -1
         ELSE parenScan(tokens, i + 1, parenCount - 1)
  ELSE parenScan(tokens, i + 1, parenCount)

\* the try block of isValidExpression without the trial parse
isValidExpressionTry_NoParse(s) ==
  LET lexed == tokenize(s)
  IN  IF ~lexed.ok THEN Throw(lexed.message, <<"tokenize">>)
      ELSE IF Len(lexed.tokens) = 0 THEN Return(TRUE, <<"tokenize">>)
      ELSE IF parenScan(lexed.tokens, 1, 0) # 0 THEN Return(FALSE, <<"tokenize">>)
      ELSE Return(TRUE, <<"tokenize">>)

\* the try block of isValidExpression
isValidExpressionTry(s) ==
  LET lexed == tokenize(s)
  IN  IF ~lexed.ok THEN Throw(lexed.message, <<"tokenize">>)
      ELSE IF Len(lexed.tokens) = 0 THEN Return(TRUE, <<"tokenize">>)
      ELSE IF parenScan(lexed.tokens, 1, 0) # 0 THEN Return(FALSE, <<"tokenize">>)
      ELSE LET ast == parse(lexed.tokens)
           IN  IF ~ast.ok THEN Throw(ast.message, <<"tokenize", "parse">>)
               ELSE Return(TRUE, <<"tokenize", "parse">>)

\* isValidExpression without its catch clause
isValidExpression_NoCatch(s) ==
  IF IsBlank(s) THEN Return(TRUE, <<>>) ELSE isValidExpressionTry(s)

isValidExpression(s) ==
  IF IsBlank(s) THEN Return(TRUE, <<>>)
  ELSE LET attempt == isValidExpressionTry(s)
       IN  IF attempt.kind = "throw"
             THEN Return(FALSE, attempt.stages)
             ELSE attempt

(***************************************************************************)
(* formatNumber.  Besides the rationals a number may be Infinity,          *)
(* -Infinity or NaN.  Math.round(num * 10^m) / 10^m is computed on the     *)
(* decimal expansion of num (long division, then rounding half towards     *)
(* +Infinity), so no intermediate product is needed; the rounded number is *)
(* its sign, its integer part and its m fraction digits.  Number's         *)
(* toString renders it: no trailing zeros, "0" for both zeros, exponent    *)
(* notation below 1e-6.  Magnitudes from 1e21 on are outside the model.    *)
(***************************************************************************)
Infinity == <<1, 0>>

NegInfinity == <<-1, 0>>

isFinite(x) == x[2] # 0

DigitChar(k) ==
  CASE k = 0 -> "0" [] k = 1 -> "1" [] k = 2 -> "2" [] k = 3 -> "3"
    [] k = 4 -> "4" [] k = 5 -> "5" [] k = 6 -> "6" [] k = 7 -> "7"
    [] k = 8 -> "8" [] k = 9 -> "9"

RECURSIVE NatToString(_)
NatToString(n) ==
  IF n < 10 THEN <<DigitChar(n)>>
  ELSE Append(NatToString(n \div 10), DigitChar(n % 10))

DigitsToString(ds) == [i \in 1..Len(ds) |-> DigitChar(ds[i])]

RECURSIVE FractionDigits(_, _, _)
\* the first m fraction digits of r / d (r < d) and the remainder after them
FractionDigits(r, d, m) ==
  IF m = 0 THEN [digits |-> <<>>, rem |-> r]
  ELSE LET rest == FractionDigits((r * 10) % d, d, m - 1)
       IN  [digits |-> <<(r * 10) \div d>> \o rest.digits, rem |-> rest.rem]

RECURSIVE IncrementDigits(_)
\* the fraction digits plus one unit in the last place, and the carry out
IncrementDigits(ds) ==
  IF ds = <<>> THEN [digits |-> <<>>, carry |-> 1]
  ELSE LET front == SubSeq(ds, 1, Len(ds) - 1)
           last  == ds[Len(ds)]
       IN  IF last < 9
             THEN [digits |-> Append(front, last + 1), carry |-> 0]
             ELSE LET more == IncrementDigits(front)
                  IN  [digits |-> Append(more.digits, 0), carry |-> more.carry]

\* Math.round(x * Math.pow(10, m)) / Math.pow(10, m), m >= 0
roundToDecimals(x, m) ==
  IF ~isFinite(x) THEN [finite |-> FALSE, value |-> x]
  ELSE LET negative == x[1] < 0
           whole    == Abs(x[1]) \div x[2]
           fraction == FractionDigits(Abs(x[1]) % x[2], x[2], m)
           up       == IF negative THEN 2 * fraction.rem > x[2]
                                   ELSE 2 * fraction.rem >= x[2]
           rounded  == IF up THEN IncrementDigits(fraction.digits)
                             ELSE [digits |-> fraction.digits, carry |-> 0]
       IN  [finite |-> TRUE, negative |-> negative,
            int |-> whole + rounded.carry, frac |-> rounded.digits]

RECURSIVE StripTrailingZeros(_)
StripTrailingZeros(ds) ==
  IF ds # <<>> /\ ds[Len(ds)] = 0
    THEN StripTrailingZeros(SubSeq(ds, 1, Len(ds) - 1))
    ELSE ds

RECURSIVE LeadingZeros(_)
LeadingZeros(ds) ==
  IF ds # <<>> /\ Head(ds) = 0 THEN 1 + LeadingZeros(Tail(ds)) ELSE 0

\* Number.prototype.toString
numberToString(r) ==
  IF ~r.finite
    THEN IF r.value = Infinity THEN <<"I", "n", "f", "i", "n", "i", "t", "y">>
         ELSE IF r.value = NegInfinity
           THEN <<"-", "I", "n", "f", "i", "n", "i", "t", "y">>
         ELSE <<"N", "a", "N">>
  ELSE LET frac == StripTrailingZeros(r.frac)
           sign == IF r.negative THEN <<"-">> ELSE <<>>
       IN  IF r.int = 0 /\ frac = <<>> THEN <<"0">>
           ELSE IF r.int = 0 /\ LeadingZeros(frac) >= 6
             THEN LET mantissa == SubSeq(frac, LeadingZeros(frac) + 1, Len(frac))
                  IN  sign \o <<DigitChar(Head(mantissa))>>
                        \o (IF Len(mantissa) > 1
                              THEN <<".">> \o DigitsToString(Tail(mantissa))
                              ELSE <<>>)
                        \o <<"e", "-">> \o NatToString(LeadingZeros(frac) + 1)
           ELSE sign \o NatToString(r.int)
                  \o (IF frac = <<>> THEN <<>> ELSE <<".">> \o DigitsToString(frac))

ErrorText == <<"E", "r", "r", "o", "r">>

\* formatNumber without its test for non-finite numbers
formatNumber_NoFiniteTest(x, m) == numberToString(roundToDecimals(x, m))

formatNumber(x, m) ==
  IF ~isFinite(x) THEN ErrorText
  ELSE numberToString(roundToDecimals(x, m))

(***************************************************************************)
(* The callers: an expression string is handed to each entry point.        *)
(***************************************************************************)
NotCalled == [kind |-> "none"]

\* null, kept apart from every string and every message
Null == <<"null">>

\* formatNumber's default for maxDecimals
DefaultDecimals == 10

\* no call of formatNumber is under way
FormatIdle ==
  /\ number = Zero
  /\ maxDecimals = DefaultDecimals
  /\ formatted = NotCalled

\* the page is not part of the run
PageIdle ==
  /\ result = Null
  /\ error = Null
  /\ isNewExpression = TRUE
  /\ clicked = "none"
  /\ clicks = 0

Alphabet == {"0", "2", "3", ".", "+", "-", "*", "/", "(", ")", " ", "#"}

Init ==
  /\ \E n \in 0..MaxLen : expression \in [1..n -> Alphabet]
  /\ evaluated = NotCalled
  /\ validated = NotCalled
  /\ FormatIdle
  /\ PageIdle

CallEvaluate ==
  /\ evaluated.kind = "none"
  /\ evaluated' = evaluate(expression)
  /\ UNCHANGED <<expression, validated, formatVars, pageVars>>

CallIsValidExpression ==
  /\ validated.kind = "none"
  /\ validated' = isValidExpression(expression)
  /\ UNCHANGED <<expression, evaluated, formatVars, pageVars>>

Next == CallEvaluate \/ CallIsValidExpression

Spec == Init /\ [][Next]_vars

(***************************************************************************)
(* formatNumber on its own: a number and a maxDecimals are handed to it.   *)
(***************************************************************************)
Denominators == {1, 2, 3, 7, 8, 1000, 10000000}

FormatInputs ==
  {Rat(n, d) : n \in (-MaxNumerator)..MaxNumerator, d \in Denominators}
    \cup {Infinity, NegInfinity, NaN}

Formatted(str) == [kind |-> "return", value |-> str]

InitFormat ==
  /\ number \in FormatInputs
  /\ maxDecimals \in (0..MaxDecimals) \cup {DefaultDecimals}
  /\ formatted = NotCalled
  /\ expression = <<>>
  /\ evaluated = NotCalled
  /\ validated = NotCalled
  /\ PageIdle

CallFormatNumber ==
  /\ formatted.kind = "none"
  /\ formatted' = Formatted(formatNumber(number, maxDecimals))
  /\ UNCHANGED <<number, maxDecimals, engineVars, pageVars>>

NextFormat == CallFormatNumber

SpecFormat == InitFormat /\ [][NextFormat]_vars

(***************************************************************************)
(* CalculatorPage.  Its state is expression, result, error and             *)
(* isNewExpression; every keypad click runs handleButtonClick once, and    *)
(* the state setters called by one run take effect together when it ends,  *)
(* so one click is one step.  evaluated, validated and the formatNumber    *)
(* variables record the engine calls the click made.  A run is followed    *)
(* for MaxClicks clicks.                                                   *)
(***************************************************************************)
PageDigits == {"0", "3", "5"}

InvalidExpressionText == <<"Invalid expression">>

includes(str, c) == \E i \in 1..Len(str) : str[i] = c

\* expression.trim().slice(-1)
lastCharOf(str) ==
  IF trim(str) = <<>> THEN "" ELSE trim(str)[Len(trim(str))]

\* str.slice(0, -1)
dropLast(str) == SubSeq(str, 1, Len(str) - 1)

InitPage ==
  /\ expression = <<"0">>
  /\ result = Null
  /\ error = Null
  /\ isNewExpression = TRUE
  /\ clicked = "none"
  /\ clicks = 0
  /\ evaluated = NotCalled
  /\ validated = NotCalled
  /\ FormatIdle

\* one more click, of the key `value`
Click(value) ==
  /\ clicks < MaxClicks
  /\ clicks' = clicks + 1
  /\ clicked' = value

\* the click did not reach formatNumber
NotFormatted ==
  /\ number' = Zero
  /\ maxDecimals' = DefaultDecimals
  /\ formatted' = NotCalled

\* the click of `value` reached a branch that calls nothing of the engine
NoEngineCall(value) ==
  /\ Click(value)
  /\ evaluated' = NotCalled
  /\ validated' = NotCalled
  /\ NotFormatted

\* the digit branch without the setError(null) that opens the handler
ClickDigit_ErrorKept ==
  \E value \in PageDigits :
    /\ expression' = IF isNewExpression /\ expression = <<"0">> THEN <<value>>
                     ELSE IF isNewExpression THEN <<value>>
                     ELSE Append(expression, value)
    /\ isNewExpression' = FALSE
    /\ result' = Null
    /\ UNCHANGED error
    /\ NoEngineCall(value)

ClickDigit ==
  \E value \in PageDigits :
    /\ error' = Null
    /\ expression' = IF isNewExpression /\ expression = <<"0">> THEN <<value>>
                     ELSE IF isNewExpression THEN <<value>>
                     ELSE Append(expression, value)
    /\ isNewExpression' = FALSE
    /\ result' = Null
    /\ NoEngineCall(value)

ClickDecimal ==
  /\ error' = Null
  /\ IF isNewExpression
       THEN expression' = <<"0", ".">> /\ isNewExpression' = FALSE
       ELSE /\ expression' = IF ~includes(expression, ".")
                               THEN Append(expression, ".")
                               ELSE expression
            /\ UNCHANGED isNewExpression
  /\ result' = Null
  /\ NoEngineCall(".")

\* the clear branch leaving result as it is
ClickClear_ResultKept ==
  /\ error' = Null
  /\ expression' = <<"0">>
  /\ UNCHANGED result
  /\ isNewExpression' = TRUE
  /\ NoEngineCall("clear")

ClickClear ==
  /\ error' = Null
  /\ expression' = <<"0">>
  /\ result' = Null
  /\ isNewExpression' = TRUE
  /\ NoEngineCall("clear")

\* the delete branch slicing whatever the length is
ClickDelete_Emptying ==
  /\ error' = Null
  /\ expression' = dropLast(expression)
  /\ UNCHANGED isNewExpression
  /\ result' = Null
  /\ NoEngineCall("delete")

ClickDelete ==
  /\ error' = Null
  /\ IF Len(expression) = 1
       THEN expression' = <<"0">> /\ isNewExpression' = TRUE
       ELSE expression' = dropLast(expression) /\ UNCHANGED isNewExpression
  /\ result' = Null
  /\ NoEngineCall("delete")

ClickOperator ==
  \E value \in OperatorChars :
    /\ error' = Null
    /\ IF expression = <<"0">> /\ value # "-"
         THEN UNCHANGED <<expression, result, isNewExpression>>
         ELSE /\ IF result # Null /\ isNewExpression
                   THEN /\ expression' = result \o <<" ", value, " ">>
                        /\ result' = Null
                   ELSE /\ expression' =
                             IF lastCharOf(expression) \in OperatorChars /\ value # "-"
                               THEN dropLast(trim(expression)) \o <<" ", value, " ">>
                               ELSE expression \o <<" ", value, " ">>
                        /\ UNCHANGED result
              /\ isNewExpression' = TRUE
    /\ NoEngineCall(value)

\* the "(" branch leaving result as it is
ClickOpenParen_ResultKept ==
  /\ error' = Null
  /\ IF isNewExpression
       THEN expression' = <<"(">> /\ isNewExpression' = FALSE
       ELSE /\ expression' =
                 IF IsDigit(lastCharOf(expression)) \/ lastCharOf(expression) = ")"
                   THEN expression \o <<" ", "*", " ", "(">>
                   ELSE Append(expression, "(")
            /\ UNCHANGED isNewExpression
  /\ UNCHANGED result
  /\ NoEngineCall("(")

ClickOpenParen ==
  /\ error' = Null
  /\ IF isNewExpression
       THEN expression' = <<"(">> /\ isNewExpression' = FALSE
       ELSE /\ expression' =
                 IF IsDigit(lastCharOf(expression)) \/ lastCharOf(expression) = ")"
                   THEN expression \o <<" ", "*", " ", "(">>
                   ELSE Append(expression, "(")
            /\ UNCHANGED isNewExpression
  /\ result' = Null
  /\ NoEngineCall("(")

ClickCloseParen ==
  /\ error' = Null
  /\ IF lastCharOf(expression) = "" \/ IsDigit(lastCharOf(expression))
          \/ lastCharOf(expression) = ")"
       THEN expression' = Append(expression, ")") /\ isNewExpression' = FALSE
       ELSE UNCHANGED <<expression, isNewExpression>>
  /\ result' = Null
  /\ NoEngineCall(")")

\* the catch clause of the "=" branch
CaughtAtEquals(message) ==
  /\ error' = message
  /\ result' = Null
  /\ UNCHANGED <<expression, isNewExpression>>

\* the "=" branch evaluating without asking isValidExpression first
ClickEquals_NoValidation ==
  /\ Click("=")
  /\ validated' = NotCalled
  /\ evaluated' = evaluate(expression)
  /\ IF evaluated'.kind = "throw"
       THEN CaughtAtEquals(evaluated'.message) /\ NotFormatted
       ELSE /\ number' = evaluated'.value
            /\ maxDecimals' = DefaultDecimals
            /\ formatted' = Formatted(formatNumber(number', maxDecimals'))
            /\ result' = formatted'.value
            /\ expression' = formatted'.value
            /\ isNewExpression' = TRUE
            /\ error' = Null

ClickEquals ==
  /\ Click("=")
  /\ validated' = isValidExpression(expression)
  /\ IF validated'.kind = "throw"
       THEN /\ CaughtAtEquals(validated'.message)
            /\ evaluated' = NotCalled
            /\ NotFormatted
     ELSE IF ~validated'.value
       THEN /\ error' = InvalidExpressionText
            /\ UNCHANGED <<expression, result, isNewExpression>>
            /\ evaluated' = NotCalled
            /\ NotFormatted
     ELSE /\ evaluated' = evaluate(expression)
          /\ IF evaluated'.kind = "throw"
               THEN CaughtAtEquals(evaluated'.message) /\ NotFormatted
               ELSE /\ number' = evaluated'.value
                    /\ maxDecimals' = DefaultDecimals
                    /\ formatted' = Formatted(formatNumber(number', maxDecimals'))
                    /\ result' = formatted'.value
                    /\ expression' = formatted'.value
                    /\ isNewExpression' = TRUE
                    /\ error' = Null

handleButtonClick ==
  \/ ClickDigit
  \/ ClickDecimal
  \/ ClickClear
  \/ ClickDelete
  \/ ClickOperator
  \/ ClickOpenParen
  \/ ClickCloseParen
  \/ ClickEquals

NextPage == handleButtonClick

SpecPage == InitPage /\ [][NextPage]_vars

(***************************************************************************)
(* Well-formed expressions as inputs: every string of at most n characters *)
(* of the grammar  E ::= d | E op E | ( E ) | - E | + E  over the digits   *)
(* ExprDigits, built left to right.                                        *)
(***************************************************************************)
ExprDigits == {"0", "3"}

ExprChars == ExprDigits \cup OperatorChars \cup {"(", ")"}

\* a prefix is <<s, open>>: the string and the number of its unclosed "("

\* an operand has just been completed at the end of s
AfterOperand(s) == s # <<>> /\ s[Len(s)] \in ExprDigits \cup {")"}

\* the prefix p of an expression may be continued by the character c
MayFollow(p, c) ==
  IF AfterOperand(p[1])
    THEN c \in OperatorChars \/ (c = ")" /\ p[2] > 0)
    ELSE c \in ExprDigits \cup {"(", "-", "+"}

Continue(p, c) ==
  <<Append(p[1], c), p[2] + (IF c = "(" THEN 1 ELSE IF c = ")" THEN -1 ELSE 0)>>

RECURSIVE PrefixesOfLen(_)
PrefixesOfLen(n) ==
  IF n = 0 THEN {<<<<>>, 0>>}
  ELSE {Continue(x[1], x[2]) :
          x \in {y \in PrefixesOfLen(n - 1) \X ExprChars : MayFollow(y[1], y[2])}}

WellFormedUpTo(n) ==
  UNION {{p[1] : p \in {q \in PrefixesOfLen(k) : AfterOperand(q[1]) /\ q[2] = 0}} :
           k \in 1..n}

InitExpr ==
  /\ expression \in WellFormedUpTo(MaxExprLen)
  /\ evaluated = NotCalled
  /\ validated = NotCalled
  /\ FormatIdle
  /\ PageIdle

SpecExpr == InitExpr /\ [][Next]_vars

(***************************************************************************)
(* Reference arithmetic on token sequences, by rewriting: the value of a   *)
(* division whose right operand is 0, and of everything computed from it,  *)
(* is Undefined.                                                           *)
(***************************************************************************)
Undefined == <<1, 0>>

Apply(op, a, b) ==
  IF a = Undefined \/ b = Undefined THEN Undefined
  ELSE CASE op = "+" -> NumAdd(a, b)
         [] op = "-" -> NumSub(a, b)
         [] op = "*" -> NumMul(a, b)
         [] op = "/" -> IF b = Zero THEN Undefined ELSE NumDiv(a, b)

Negated(a) == IF a = Undefined THEN Undefined ELSE NumNeg(a)

Min(S) == CHOOSE x \in S : \A y \in S : x <= y

Max(S) == CHOOSE x \in S : \A y \in S : x >= y

Num(v) == [type |-> "number", value |-> v]

IsNumber(t) == t.type = "number"

IsOperator(t) == t.type = "operator"

IsOneOf(t, ops) == t.type = "operator" /\ t.value \in ops

\* number (operator number)*
IsBinaryChain(ts) ==
  /\ Len(ts) % 2 = 1
  /\ \A i \in 1..Len(ts) : IF i % 2 = 1 THEN IsNumber(ts[i]) ELSE IsOperator(ts[i])

\* ts with ts[i..j] replaced by the single token t
Splice(ts, i, j, t) == SubSeq(ts, 1, i - 1) \o <<t>> \o SubSeq(ts, j + 1, Len(ts))

\* ts with the operator at i applied to its two neighbours
Combine(ts, i) ==
  Splice(ts, i - 1, i + 1, Num(Apply(ts[i].value, ts[i - 1].value, ts[i + 1].value)))

RECURSIVE MulDivFirst(_)
\* a binary chain reduced by applying every * and / and only then the + and -
MulDivFirst(ts) ==
  LET muldiv == {i \in 1..Len(ts) : IsOneOf(ts[i], {"*", "/"})}
  IN  IF muldiv # {} THEN MulDivFirst(Combine(ts, Min(muldiv)))
      ELSE IF Len(ts) > 1 THEN MulDivFirst(Combine(ts, 2))
      ELSE ts[1].value

RECURSIVE LeftToRight(_)
\* a binary chain grouped ((a op b) op c) op ...
LeftToRight(ts) ==
  IF Len(ts) = 1 THEN ts[1].value
  ELSE Apply(ts[Len(ts) - 1].value,
             LeftToRight(SubSeq(ts, 1, Len(ts) - 2)), ts[Len(ts)].value)

RECURSIVE RightToLeft(_)
\* a binary chain grouped a op (b op (c op ...))
RightToLeft(ts) ==
  IF Len(ts) = 1 THEN ts[1].value
  ELSE Apply(ts[2].value, ts[1].value, RightToLeft(SubSeq(ts, 3, Len(ts))))

RECURSIVE FoldSigns(_)
\* every + or - that stands where an operand is expected is applied to the
\* number that follows it
FoldSigns(ts) ==
  LET signs == {i \in 1..(Len(ts) - 1) :
                  /\ IsOneOf(ts[i], {"+", "-"})
                  /\ (i = 1 \/ IsOperator(ts[i - 1]))
                  /\ IsNumber(ts[i + 1])}
  IN  IF signs = {} THEN ts
      ELSE LET i == Max(signs)
               v == ts[i + 1].value
           IN  FoldSigns(Splice(ts, i, i + 1,
                                Num(IF ts[i].value = "-" THEN Negated(v) ELSE v)))

\* the value of a token sequence without parentheses, when it is well formed
FlatValue(ts) ==
  LET folded == FoldSigns(ts)
  IN  IF IsBinaryChain(folded)
        THEN [ok |-> TRUE, value |-> MulDivFirst(folded)]
        ELSE [ok |-> FALSE]

RECURSIVE GroupsFirst(_)
\* every innermost ( ... ) group is replaced by its own value, until no
\* group is left
GroupsFirst(ts) ==
  LET closes == {j \in 1..Len(ts) : ts[j].type = "rparen"}
  IN  IF closes = {}
        THEN IF \E i \in 1..Len(ts) : ts[i].type = "lparen"
               THEN [ok |-> FALSE]
               ELSE FlatValue(ts)
        ELSE LET j     == Min(closes)
                 opens == {i \in 1..(j - 1) : ts[i].type = "lparen"}
             IN  IF opens = {} THEN [ok |-> FALSE]
                 ELSE LET i     == Max(opens)
                          inner == FlatValue(SubSeq(ts, i + 1, j - 1))
                      IN  IF ~inner.ok THEN inner
                          ELSE GroupsFirst(Splice(ts, i, j, Num(inner.value)))

\* the tokens of the expression under evaluation
Lexed == tokenize(expression)

Called(outcome) == outcome.kind # "none"

Returned(outcome) == outcome.kind = "return"

Threw(outcome) == outcome.kind = "throw"

Mentions(message, fragment) == \E k \in DOMAIN message : message[k] = fragment

(***************************************************************************)
(* C1: on an expression that is a chain of numbers joined by binary        *)
(* operators, without parentheses, evaluate returns the value obtained by  *)
(* applying every * and / before any + or -.                               *)
(***************************************************************************)
C1_MulDivBeforeAddSub ==
  (/\ Called(evaluated)
   /\ Lexed.ok
   /\ IsBinaryChain(Lexed.tokens)
   /\ MulDivFirst(Lexed.tokens) # Undefined)
  => /\ Returned(evaluated)
     /\ evaluated.value = MulDivFirst(Lexed.tokens)

\* a + or - stands before a * or /, and precedence changed the result
C1_Witness ==
  /\ Returned(evaluated)
  /\ Lexed.ok
  /\ IsBinaryChain(Lexed.tokens)
  /\ \E i, j \in 1..Len(Lexed.tokens) :
       /\ i < j
       /\ IsOneOf(Lexed.tokens[i], {"+", "-"})
       /\ IsOneOf(Lexed.tokens[j], {"*", "/"})
  /\ evaluated.value = MulDivFirst(Lexed.tokens)
  /\ LeftToRight(Lexed.tokens) # Undefined
  /\ evaluated.value # LeftToRight(Lexed.tokens)

(***************************************************************************)
(* C2: on a well-formed expression with parentheses, evaluate returns the  *)
(* value obtained by reducing each ( ... ) group to its own value before   *)
(* the operators around it are applied.                                    *)
(***************************************************************************)
HasGroup(ts) == \E i \in 1..Len(ts) : ts[i].type = "lparen"

C2_GroupsAreOperands ==
  (/\ Called(evaluated)
   /\ Lexed.ok
   /\ HasGroup(Lexed.tokens)
   /\ GroupsFirst(Lexed.tokens).ok
   /\ GroupsFirst(Lexed.tokens).value # Undefined)
  => /\ Returned(evaluated)
     /\ evaluated.value = GroupsFirst(Lexed.tokens).value

\* the string without its parentheses
Unparenthesized(s) == SelectSeq(s, LAMBDA c : c \notin {"(", ")"})

\* a group overrode precedence: without the parentheses the value differs
C2_Witness ==
  /\ Returned(evaluated)
  /\ Lexed.ok
  /\ HasGroup(Lexed.tokens)
  /\ GroupsFirst(Lexed.tokens).ok
  /\ evaluated.value = GroupsFirst(Lexed.tokens).value
  /\ LET flat == tokenize(Unparenthesized(expression)).tokens
     IN  /\ IsBinaryChain(flat)
         /\ MulDivFirst(flat) # Undefined
         /\ MulDivFirst(flat) # evaluated.value

(***************************************************************************)
(* C3: a chain whose operators are all in {+,-} or all in {*,/} is grouped *)
(* left to right, whatever its length.                                     *)
(***************************************************************************)
SameTier(ts) ==
  \/ \A i \in 1..Len(ts) : IsOperator(ts[i]) => ts[i].value \in {"+", "-"}
  \/ \A i \in 1..Len(ts) : IsOperator(ts[i]) => ts[i].value \in {"*", "/"}

C3_LeftAssociative ==
  (/\ Called(evaluated)
   /\ Lexed.ok
   /\ IsBinaryChain(Lexed.tokens)
   /\ SameTier(Lexed.tokens)
   /\ LeftToRight(Lexed.tokens) # Undefined)
  => /\ Returned(evaluated)
     /\ evaluated.value = LeftToRight(Lexed.tokens)

\* a chain of three operators where grouping from the right gives another value
C3_Witness ==
  /\ Returned(evaluated)
  /\ Lexed.ok
  /\ IsBinaryChain(Lexed.tokens)
  /\ SameTier(Lexed.tokens)
  /\ Len(Lexed.tokens) >= 7
  /\ evaluated.value = LeftToRight(Lexed.tokens)
  /\ RightToLeft(Lexed.tokens) # Undefined
  /\ evaluated.value # RightToLeft(Lexed.tokens)

(***************************************************************************)
(* C4: when some division of a well-formed expression has a right operand  *)
(* of value 0, evaluate throws an error whose message contains "Division   *)
(* by zero", wherever that division stands.                                *)
(***************************************************************************)
C4_DivisionByZeroThrows ==
  (/\ Called(evaluated)
   /\ Lexed.ok
   /\ GroupsFirst(Lexed.tokens).ok
   /\ GroupsFirst(Lexed.tokens).value = Undefined)
  => /\ Threw(evaluated)
     /\ Mentions(evaluated.message, "Division by zero")

\* the division stands in a group that is multiplied by 0
C4_Witness ==
  /\ expression = <<"0", "*", "(", "3", "/", "0", ")">>
  /\ Threw(evaluated)
  /\ Mentions(evaluated.message, "Division by zero")

(***************************************************************************)
(* C7: a prefix of n >= 1 unary minus signs, with unary plus signs mixed   *)
(* in, before a primary expression of value v evaluates to v for even n    *)
(* and to -v for odd n.                                                    *)
(***************************************************************************)
RECURSIVE SignPrefixLen(_)
\* the number of leading + and - characters
SignPrefixLen(s) ==
  IF s # <<>> /\ Head(s) \in {"+", "-"} THEN 1 + SignPrefixLen(Tail(s)) ELSE 0

MinusCount(s) == Cardinality({i \in 1..SignPrefixLen(s) : s[i] = "-"})

AfterSigns(s) == SubSeq(s, SignPrefixLen(s) + 1, Len(s))

RECURSIVE GroupEnd(_, _, _)
\* the index of the ")" that closes the "(" at ts[1]; 0 if there is none
GroupEnd(ts, i, open) ==
  IF i > Len(ts) THEN 0
  ELSE IF ts[i].type = "lparen" THEN GroupEnd(ts, i + 1, open + 1)
  ELSE IF ts[i].type = "rparen"
    THEN IF open = 1 THEN i ELSE GroupEnd(ts, i + 1, open - 1)
  ELSE GroupEnd(ts, i + 1, open)

\* a number, or one parenthesized group
IsPrimary(s) ==
  LET lexed == tokenize(s)
  IN  /\ lexed.ok
      /\ Len(lexed.tokens) >= 1
      /\ \/ Len(lexed.tokens) = 1 /\ IsNumber(lexed.tokens[1])
         \/ /\ lexed.tokens[1].type = "lparen"
            /\ GroupEnd(lexed.tokens, 1, 0) = Len(lexed.tokens)

C7_UnaryMinusParity ==
  (/\ Called(evaluated)
   /\ MinusCount(expression) >= 1
   /\ IsPrimary(AfterSigns(expression))
   /\ Returned(evaluate(AfterSigns(expression))))
  => /\ Returned(evaluated)
     /\ evaluated.value =
          IF MinusCount(expression) % 2 = 0
            THEN evaluate(AfterSigns(expression)).value
            ELSE NumNeg(evaluate(AfterSigns(expression)).value)

\* two minus signs and a plus sign before a group of non-zero value
C7_Witness ==
  /\ Returned(evaluated)
  /\ MinusCount(expression) = 2
  /\ SignPrefixLen(expression) = 3
  /\ IsPrimary(AfterSigns(expression))
  /\ Len(AfterSigns(expression)) > 1
  /\ evaluated.value = evaluate(AfterSigns(expression)).value
  /\ evaluated.value # Zero

(***************************************************************************)
(* C5: an input with unbalanced parentheses - a "(" never closed or a ")"  *)
(* without an earlier "(" - makes evaluate throw and isValidExpression     *)
(* return false.                                                           *)
(***************************************************************************)
Occurrences(s, c, k) == Cardinality({i \in 1..k : s[i] = c})

Unbalanced(s) ==
  \/ \E k \in 1..Len(s) : Occurrences(s, ")", k) > Occurrences(s, "(", k)
  \/ Occurrences(s, "(", Len(s)) # Occurrences(s, ")", Len(s))

C5_UnbalancedRejectedByBoth ==
  (/\ Called(evaluated)
   /\ Called(validated)
   /\ Unbalanced(expression))
  => /\ Threw(evaluated)
     /\ validated = Return(FALSE, validated.stages)

(***************************************************************************)
(* C6: an input of which tokens remain after a complete expression has     *)
(* been parsed makes evaluate throw and isValidExpression return false.    *)
(***************************************************************************)
TokensRemain(s) ==
  /\ ~IsBlank(s)
  /\ tokenize(s).ok
  /\ Len(tokenize(s).tokens) > 0
  /\ parse(tokenize(s).tokens).ok
  /\ parse(tokenize(s).tokens).current < Len(tokenize(s).tokens)

C6_TrailingTokensRejectedByBoth ==
  (/\ Called(evaluated)
   /\ Called(validated)
   /\ TokensRemain(expression))
  => /\ Threw(evaluated)
     /\ validated = Return(FALSE, validated.stages)

(***************************************************************************)
(* C8: on an input that is empty or all whitespace, evaluate returns 0 and *)
(* isValidExpression returns true, and neither enters tokenize or the      *)
(* parser.                                                                 *)
(***************************************************************************)
AllWhitespace(s) == \A i \in 1..Len(s) : IsSpace(s[i])

C8_BlankInput ==
  AllWhitespace(expression)
  => /\ Called(evaluated) => evaluated = Return(Zero, <<>>)
     /\ Called(validated) => validated = Return(TRUE, <<>>)

\* both entry points have answered on a string of several spaces
C8_Witness ==
  /\ Len(expression) >= 2
  /\ AllWhitespace(expression)
  /\ evaluated = Return(Zero, <<>>)
  /\ validated = Return(TRUE, <<>>)

(***************************************************************************)
(* C9: isValidExpression always returns a boolean; a failure of tokenize   *)
(* or of the parser never leaves it and gives the result false.            *)
(***************************************************************************)
LexOrParseFails(s) ==
  /\ ~AllWhitespace(s)
  /\ \/ ~tokenize(s).ok
     \/ /\ Len(tokenize(s).tokens) > 0
        /\ ~parse(tokenize(s).tokens).ok

C9_ValidatorNeverThrows ==
  Called(validated)
  => /\ Returned(validated)
     /\ validated.value \in BOOLEAN
     /\ LexOrParseFails(expression) => validated.value = FALSE

\* the parser threw inside isValidExpression (balanced parentheses, so the
\* parse was attempted) and the answer is false
C9_Witness ==
  /\ Called(validated)
  /\ tokenize(expression).ok
  /\ ~parse(tokenize(expression).tokens).ok
  /\ validated = Return(FALSE, <<"tokenize", "parse">>)

(***************************************************************************)
(* C10: a non-blank input holding a character other than whitespace, a     *)
(* digit, ".", + - * /, "(" or ")" makes tokenize fail with an error that  *)
(* names the offending character: evaluate throws and isValidExpression    *)
(* returns false, whatever stands before or after that character.          *)
(***************************************************************************)
InLexAlphabet(c) ==
  IsSpace(c) \/ IsDigit(c) \/ c = "." \/ c \in OperatorChars \/ c \in {"(", ")"}

Offending(s) == {s[i] : i \in {k \in 1..Len(s) : ~InLexAlphabet(s[k])}}

C10_OffendingCharacterNamed ==
  (/\ Called(evaluated)
   /\ Called(validated)
   /\ Offending(expression) # {})
  => /\ Threw(evaluated)
     /\ \E c \in Offending(expression) :
          evaluated.message =
            <<"Calculation error: ", "Invalid character in expression: ", c>>
     /\ evaluated.stages = <<"tokenize">>
     /\ validated = Return(FALSE, <<"tokenize">>)

(***************************************************************************)
(* C11: an input made up only of whitespace, digits, ".", + - * / and      *)
(* parentheses is tokenized without a lexical error, wherever a "." stands *)
(* in it.                                                                  *)
(***************************************************************************)
OverLexAlphabet(s) == \A i \in 1..Len(s) : InLexAlphabet(s[i])

LexicalError(outcome) ==
  /\ Threw(outcome)
  /\ Mentions(outcome.message, "Invalid character in expression: ")

C11_AlphabetNeverRejected ==
  (Called(evaluated) /\ OverLexAlphabet(expression)) => ~LexicalError(evaluated)

(***************************************************************************)
(* C12: a numeric literal - a maximal run of digits and "." that starts    *)
(* with a digit - holding more than one "." is rejected: evaluate throws   *)
(* and isValidExpression returns false.                                    *)
(***************************************************************************)
RECURSIVE RunEnd(_, _)
\* the first index >= i of s that is not a digit or a "."
RunEnd(s, i) ==
  IF i <= Len(s) /\ (s[i] \in DigitChars \/ s[i] = ".") THEN RunEnd(s, i + 1) ELSE i

DotsIn(s, i, j) == Cardinality({k \in i..(j - 1) : s[k] = "."})

HasMultiDotLiteral(s) ==
  \E i \in 1..Len(s) :
    /\ s[i] \in DigitChars
    /\ (i = 1 \/ ~(s[i - 1] \in DigitChars \/ s[i - 1] = "."))
    /\ DotsIn(s, i, RunEnd(s, i)) >= 2

C12_MultiDotLiteralRejected ==
  (/\ Called(evaluated)
   /\ Called(validated)
   /\ HasMultiDotLiteral(expression))
  => /\ Threw(evaluated)
     /\ validated = Return(FALSE, validated.stages)

(***************************************************************************)
(* C13: an input whose token sequence holds a "(" directly followed by a   *)
(* ")" fails wherever that empty group stands: evaluate throws and         *)
(* isValidExpression returns false.                                        *)
(***************************************************************************)
HasEmptyGroup(ts) ==
  \E i \in 1..(Len(ts) - 1) : ts[i].type = "lparen" /\ ts[i + 1].type = "rparen"

C13_EmptyGroupRejected ==
  (/\ Called(evaluated)
   /\ Called(validated)
   /\ Lexed.ok
   /\ HasEmptyGroup(Lexed.tokens))
  => /\ Threw(evaluated)
     /\ validated = Return(FALSE, validated.stages)

(***************************************************************************)
(* C14: whichever stage fails, evaluate throws "Calculation error: "       *)
(* followed by that stage's message unchanged, and it returns a value only *)
(* when no stage has failed.                                               *)
(***************************************************************************)
\* the message of the first stage that fails on s; <<>> when none fails
StageFailure(s) ==
  LET lexed == tokenize(s)
  IN  IF ~lexed.ok THEN lexed.message
      ELSE IF Len(lexed.tokens) = 0 THEN <<>>
      ELSE LET ast == parse(lexed.tokens)
           IN  IF ~ast.ok THEN ast.message
               ELSE LET value == evaluateNode(ast.node)
                    IN  IF ~value.ok THEN value.message ELSE <<>>

C14_ErrorsAreWrapped ==
  (Called(evaluated) /\ ~AllWhitespace(expression))
  => IF StageFailure(expression) = <<>>
       THEN Returned(evaluated)
       ELSE /\ Threw(evaluated)
            /\ Head(evaluated.message) = "Calculation error: "
            /\ Tail(evaluated.message) = StageFailure(expression)

\* the third stage failed and its message came out wrapped
C14_Witness ==
  /\ Threw(evaluated)
  /\ evaluated.stages = <<"tokenize", "parse", "evaluateNode">>
  /\ evaluated.message = <<"Calculation error: ", "Division by zero">>

(***************************************************************************)
(* C15: whitespace before, after or between the tokens of an input (not    *)
(* inside a numeric literal) changes neither the outcome of evaluate nor   *)
(* the verdict of isValidExpression: every such input behaves as the same  *)
(* input with all its whitespace removed.                                  *)
(***************************************************************************)
WithoutWhitespace(s) == SelectSeq(s, LAMBDA c : ~IsSpace(c))

IsNumberChar(c) == c \in DigitChars \/ c = "."

\* some run of whitespace stands between two characters of a literal
SplitsLiteral(s) ==
  \E i, j \in 1..Len(s) :
    /\ i + 1 < j
    /\ IsNumberChar(s[i])
    /\ IsNumberChar(s[j])
    /\ \A k \in (i + 1)..(j - 1) : IsSpace(s[k])

C15_WhitespaceIgnored ==
  ~SplitsLiteral(expression)
  => /\ Called(evaluated)
          => /\ evaluated.kind = evaluate(WithoutWhitespace(expression)).kind
             /\ Returned(evaluated)
                  => evaluated.value = evaluate(WithoutWhitespace(expression)).value
             /\ Threw(evaluated)
                  => evaluated.message = evaluate(WithoutWhitespace(expression)).message
     /\ Called(validated)
          => validated.value = isValidExpression(WithoutWhitespace(expression)).value

\* whitespace stands between two tokens of an expression that has a value
C15_Witness ==
  /\ Returned(evaluated)
  /\ Called(validated)
  /\ Len(Lexed.tokens) >= 3
  /\ \E i \in 2..(Len(expression) - 1) : IsSpace(expression[i])

(***************************************************************************)
(* C16: formatNumber returns "Error" exactly when its number is not finite *)
(* (Infinity, -Infinity or NaN), whatever maxDecimals is; for a finite     *)
(* number it returns the rendering of a number, never "Error".             *)
(***************************************************************************)
IsNumeral(str) ==
  /\ str # <<>>
  /\ \A i \in 1..Len(str) : IsDigit(str[i]) \/ str[i] \in {".", "-", "e"}
  /\ \E i \in 1..Len(str) : IsDigit(str[i])

Rejected(outcome) == outcome.kind = "return" /\ outcome.value = FALSE

Accepted(outcome) == outcome.kind = "return" /\ outcome.value = TRUE

\* this step is the click of "="
EqualsClicked == clicks' # clicks /\ clicked' = "="

(***************************************************************************)
(* C17: every click of "=" calls isValidExpression on the expression, and  *)
(* evaluate only if it answered true; if it answered false, error becomes  *)
(* "Invalid expression", evaluate is not called and expression, result and *)
(* isNewExpression stay as they were.                                      *)
(***************************************************************************)
C17_ValidatedBeforeEvaluated ==
  [][EqualsClicked
     => /\ validated' = isValidExpression(expression)
        /\ Called(evaluated') => Accepted(validated')
        /\ Rejected(validated')
           => /\ error' = InvalidExpressionText
              /\ ~Called(evaluated')
              /\ UNCHANGED <<expression, result, isNewExpression>>]_vars

C17_Witness ==
  /\ clicked = "="
  /\ Rejected(validated)
  /\ ~Called(evaluated)
  /\ error = InvalidExpressionText
  /\ ~isNewExpression

(***************************************************************************)
(* C18: from the initial state a digit, a binary operator, a second digit  *)
(* and "=" evaluate the whole accumulated expression: the second digit is  *)
(* appended to "<digit> <operator> ", and "=" on "<digit> <operator>       *)
(* <digit>" shows the value of the operation ("5", "+", "3" give "5 + 3",  *)
(* then "8").                                                              *)
(***************************************************************************)
C18_DigitOperatorDigitAccumulates ==
  [][\A a, b \in PageDigits : \A op \in OperatorChars :
       /\ (/\ clicks = 2
           /\ expression = <<a, " ", op, " ">>
           /\ clicks' = 3
           /\ clicked' = b)
          => expression' = <<a, " ", op, " ", b>>
       /\ (/\ clicks = 3
           /\ expression = <<a, " ", op, " ", b>>
           /\ DigitValue(b) # 0
           /\ EqualsClicked)
          => result' = formatNumber(Apply(op, Rat(DigitValue(a), 1),
                                          Rat(DigitValue(b), 1)),
                                    DefaultDecimals)]_vars

(***************************************************************************)
(* C19: after every "=" that succeeded, result and expression are both     *)
(* formatNumber of what evaluate returned for the expression before the    *)
(* click, and isNewExpression is true; the click of an operator directly   *)
(* after it makes the expression "<result> <operator> " and result null,   *)
(* whatever the operator and the result.                                   *)
(***************************************************************************)
C19_ResultCarriedIntoNextExpression ==
  [][/\ (EqualsClicked /\ Returned(evaluated'))
        => /\ Returned(evaluate(expression))
           /\ result' = formatNumber(evaluate(expression).value, DefaultDecimals)
           /\ expression' = result'
           /\ isNewExpression'
     /\ (/\ clicked = "="
         /\ Returned(evaluated)
         /\ clicks' # clicks
         /\ clicked' \in OperatorChars)
        => /\ expression' = result \o <<" ", clicked', " ">>
           /\ result' = Null]_vars

(***************************************************************************)
(* C20: after any click other than "=" error is null; error is not null    *)
(* only in the state that directly follows an "=" that failed (the         *)
(* expression was found invalid, or a call in the handler threw).          *)
(***************************************************************************)
C20_ErrorOnlyAfterFailedEquals ==
  /\ clicked # "=" => error = Null
  /\ error # Null
     => /\ clicked = "="
        /\ Rejected(validated) \/ Threw(validated) \/ Threw(evaluated)

C20_Witness ==
  /\ clicked = "="
  /\ error # Null
  /\ isNewExpression
  /\ clicks >= 3

(***************************************************************************)
(* C21: the click of a binary operator directly after another one replaces *)
(* it: after a digit, an operator and a second operator the expression    *)
(* holds the digit and one operator only, the second one, for every pair   *)
(* of operators ("5", "+", "-" give "5 - ").  Spacing is left open.        *)
(***************************************************************************)
OperatorsIn(str) == SelectSeq(str, LAMBDA c : c \in OperatorChars)

C21_SecondOperatorReplacesFirst ==
  [][\A a \in PageDigits : \A op1 \in OperatorChars :
       (/\ clicks = 2
        /\ expression = <<a, " ", op1, " ">>
        /\ clicks' = 3
        /\ clicked' \in OperatorChars)
       => /\ OperatorsIn(expression') = <<clicked'>>
          /\ WithoutWhitespace(expression') = <<a, clicked'>>]_vars

(***************************************************************************)
(* C22: where a new expression starts (initial state, or after clear) the  *)
(* click of "-" is taken as a negation and the digit clicked after it      *)
(* makes a negative number, so that "=" shows minus the digit; the click   *)
(* of "+", "*" or "/" there changes nothing.                               *)
(***************************************************************************)
AtStart ==
  /\ clicked \in {"none", "clear"}
  /\ expression = <<"0">>
  /\ result = Null
  /\ isNewExpression

C22_MinusAtStartNegates ==
  [][/\ (AtStart /\ clicks' # clicks /\ clicked' \in {"+", "*", "/"})
        => UNCHANGED <<expression, result, error, isNewExpression>>
     /\ (AtStart /\ clicks' # clicks /\ clicked' = "-")
        => expression' # expression
     /\ \A d \in PageDigits :
          (/\ clicked = "-"
           /\ expression = <<"0", " ", "-", " ">>
           /\ clicks' # clicks
           /\ clicked' = d)
          => evaluate(expression') = Return(NumNeg(Rat(DigitValue(d), 1)),
                                            <<"tokenize", "parse", "evaluateNode">>)]_vars

(***************************************************************************)
(* C23: in whatever reachable state "clear" is clicked, the state after it *)
(* is the initial one: expression "0", result null, error null and         *)
(* isNewExpression true, so what follows runs as on a fresh calculator.    *)
(***************************************************************************)
C23_ClearRestoresInitialState ==
  [][(clicks' # clicks /\ clicked' = "clear")
     => /\ expression' = <<"0">>
        /\ result' = Null
        /\ error' = Null
        /\ isNewExpression' = TRUE
        /\ ~Called(evaluated') /\ ~Called(validated') /\ ~Called(formatted')]_vars

C23_Witness ==
  /\ clicked = "clear"
  /\ clicks >= 3
  /\ expression = <<"0">>
  /\ result = Null
  /\ error = Null
  /\ isNewExpression

(***************************************************************************)
(* C24: whenever isValidExpression answers true for a string, evaluate on  *)
(* the same string returns a number or throws exactly "Calculation error:  *)
(* Division by zero", never a lexical or a parse error; so the error of    *)
(* CalculatorPage is null, "Invalid expression" or "Calculation error:     *)
(* Division by zero".                                                      *)
(***************************************************************************)
DivisionByZeroText == <<"Calculation error: ", "Division by zero">>

OpenParens(str) ==
  Occurrences(str, "(", Len(str)) - Occurrences(str, ")", Len(str))

NoUnopenedCloseParen(str) ==
  \A k \in 1..Len(str) : Occurrences(str, ")", k) <= Occurrences(str, "(", k)

C25_CloseParenNeedsOpenParen ==
  [][/\ (clicks' # clicks /\ clicked' = ")" /\ expression' # expression)
        => /\ OpenParens(expression) > 0
           /\ lastCharOf(expression) \notin OperatorChars
     /\ NoUnopenedCloseParen(expression')]_vars

(***************************************************************************)
(* C26: in every reachable state of the page result is not null only if    *)
(* expression equals result and isNewExpression is true: only an "=" that  *)
(* succeeded sets result, and every click that changes the expression      *)
(* while a result is shown makes result null.                              *)
(***************************************************************************)
C26_ResultOnlyWithItsExpression ==
  [][/\ result' # Null => (expression' = result' /\ isNewExpression')
     /\ (result' # Null /\ result' # result)
        => (EqualsClicked /\ Returned(evaluated'))
     /\ (result # Null /\ expression' # expression) => result' = Null]_vars

C26_Witness ==
  /\ clicked = "="
  /\ result = <<"9">>
  /\ expression = result
  /\ isNewExpression

(***************************************************************************)
(* C27: on every token sequence the parser terminates.  From whichever     *)
(* cursor position it is entered, a parsePrimary, parseMulDiv or           *)
(* parseAddSub that returns has moved the cursor forward by at least one   *)
(* token and not past the end; a loop of parseMulDiv or parseAddSub never  *)
(* moves it back and moves it only over an operator of its tier; a         *)
(* successful parse ends with 0 < current <= tokens.length; and a          *)
(* parsePrimary entered at the end throws "Unexpected end of expression",  *)
(* every failure being one of the parser's three errors.                   *)
(***************************************************************************)
Consumed(outcome, tokens, current) ==
  IF outcome.ok
    THEN current < outcome.current /\ outcome.current <= Len(tokens)
    ELSE \/ outcome.message = <<"Unexpected end of expression">>
         \/ outcome.message = <<"Missing closing parenthesis">>
         \/ Head(outcome.message) = "Unexpected token: "

LoopConsumed(outcome, tokens, current, tier) ==
  outcome.ok
  => /\ current <= outcome.current /\ outcome.current <= Len(tokens)
     /\ current < outcome.current
        => /\ TokenAt(tokens, current).type = "operator"
           /\ TokenAt(tokens, current).value \in tier
           /\ current + 1 < outcome.current

C27_ParserConsumesTokens ==
  Lexed.ok
  => LET tokens == Lexed.tokens
     IN  /\ \A current \in 0..Len(tokens) :
               /\ Consumed(parsePrimary(tokens, current), tokens, current)
               /\ Consumed(parseMulDiv(tokens, current), tokens, current)
               /\ Consumed(parseAddSub(tokens, current), tokens, current)
               /\ LoopConsumed(parseMulDivLoop(tokens, NumberNode(Zero), current),
                               tokens, current, {"*", "/"})
               /\ LoopConsumed(parseAddSubLoop(tokens, NumberNode(Zero), current),
                               tokens, current, {"+", "-"})
         /\ parsePrimary(tokens, Len(tokens)) =
              Failure(<<"Unexpected end of expression">>)
         /\ Called(evaluated) /\ "parse" \in {evaluated.stages[i] : i \in 1..Len(evaluated.stages)}
            => (parse(tokens).ok
                => 0 < parse(tokens).current /\ parse(tokens).current <= Len(tokens))

C27_Witness ==
  /\ Returned(evaluated)
  /\ Lexed.ok
  /\ Len(Lexed.tokens) = 4
  /\ Lexed.tokens[1].type = "lparen"
  /\ parse(Lexed.tokens).ok
  /\ parse(Lexed.tokens).current = 4

(***************************************************************************)
(* C28: in every reachable state of the page the expression is not the     *)
(* empty string: "delete" on an expression of one character makes it "0"   *)
(* with isNewExpression true, "delete" on a longer one removes its last    *)
(* character and nothing else, and no other click yields the empty string. *)
(***************************************************************************)
C28_ExpressionNeverEmpty ==
  [][/\ expression' # <<>>
     /\ (clicks' # clicks /\ clicked' = "delete")
        => IF Len(expression) = 1
             THEN expression' = <<"0">> /\ isNewExpression'
             ELSE /\ expression' = SubSeq(expression, 1, Len(expression) - 1)
                  /\ UNCHANGED isNewExpression]_vars

C28_Witness ==
  /\ clicked = "delete"
  /\ clicks >= 2
  /\ expression = <<"0">>
  /\ isNewExpression
  /\ result = Null


====
